---- MODULE Spec2Model ----
(***************************************************************************)
(* Model of the e-ink panel driver and 1-bit image codec of                *)
(* distiller_display_sdk.c.                                                *)
(*                                                                         *)
(* The driver state is the set of file-scope statics of the C file.  Every *)
(* public function is one action.  What a call does to the outside world   *)
(* is recorded per call: `bus` is the sequence of signal drives, byte      *)
(* transfers, delays and busy-waits the call performed on the panel        *)
(* interface, `sys` is the sequence of resource acquisitions and releases  *)
(* (open/close/gpiod calls), `ret` is the value returned.                  *)
(***************************************************************************)
EXTENDS Integers, Sequences, FiniteSets, TLC

----------------------------------------------------------------------------
(* Program constants *)

EPD_WIDTH == 128
EPD_HEIGHT == 250
EPD_ARRAY == (EPD_WIDTH * EPD_HEIGHT) \div 8

DC_PIN == 7
RST_PIN == 13
BUSY_PIN == 9

DISPLAY_MODE_FULL == 0
DISPLAY_MODE_PARTIAL == 1

\* bound of watchdog_counter in lcd_chkstatus
WATCHDOG_LIMIT == 1000

\* grayscale threshold of convert_png_to_1bit
GRAY_THRESHOLD == 128

\* the null pointer, and the value of a call that returns nothing
NULL == 0
VOID == "void"

\* the descriptor open() returns on success, and the objects libgpiod returns:
\* the chip, and for each pin its line object
SPI_DEV_FD == 3
GPIOCHIP0 == 1
gpiod_chip_get_line(c, pin) == pin

\* a non-null pointer to a caller's frame buffer or file name
FRAME_PTR == 1
PNG_PATH == 1

----------------------------------------------------------------------------
(* Bounds of the model *)

\* number of bytes observed after the end of the codec's output buffer
GuardLen == 2

\* length, in polls, of the short busy period the busy line can show
ShortBusy == 2

\* number of events the model keeps of what happened on the panel interface
Window == 2

\* number of protocol events the second of two threads runs its call for
MaxRacing == 1

----------------------------------------------------------------------------
(* State *)

VARIABLES
    spi_fd, chip, dc_line, rst_line, busy_line, initialized,  \* the statics
    held,          \* what the process holds at the OS: subset of Resources
    panel_asleep,  \* the panel controller is in deep sleep
    panel_border,  \* the border waveform value the panel was sent last
    init_ok,       \* display_init has returned true, no display_cleanup since
    call,          \* the last public call and its arguments
    ret,           \* its return value
    bus,           \* what it did on the panel interface
    sys,           \* the acquisitions and releases it made
    output_data,   \* the codec's output buffer (and GuardLen bytes behind it)
    conv_ret,      \* return value of the last direct convert_png_to_1bit
    thread,        \* per thread: the public call it is in and what is left of it
    wire,          \* the latest events on the panel interface
    dc_level       \* the level the data/command-select line is at

drv_vars == <<spi_fd, chip, dc_line, rst_line, busy_line, initialized>>
env_vars == <<held, panel_asleep, init_ok>>
obs_vars == <<call, ret, bus, sys>>
codec_vars == <<output_data, conv_ret>>
step_vars == <<thread, wire, dc_level>>
vars == <<drv_vars, env_vars, panel_border, obs_vars, codec_vars, step_vars>>

Resources == {"spi", "chip", "dc", "rst", "busy"}

\* the resource a line object stands for
LineRes(line) ==
    IF line = DC_PIN THEN "dc" ELSE IF line = RST_PIN THEN "rst" ELSE "busy"

\* the statics and the OS resources as one value, for the code that reads and
\* writes them in the middle of a call
Machine ==
    [spi_fd |-> spi_fd, chip |-> chip, dc_line |-> dc_line,
     rst_line |-> rst_line, busy_line |-> busy_line,
     initialized |-> initialized, held |-> held]

----------------------------------------------------------------------------
(* The busy line, as the environment drives it during one busy-wait: the    *)
(* first `run` polls read 1 (busy), every later poll reads `then`           *)
(* (0 = ready, -1 = gpiod_line_get_value failed).                           *)

Idle == [run |-> 0, then |-> 0]
BusyBehaviours ==
    { Idle,
      [run |-> ShortBusy, then |-> 0],
      [run |-> WATCHDOG_LIMIT, then |-> 0],
      [run |-> WATCHDOG_LIMIT + 1, then |-> 0],
      [run |-> 0, then |-> -1] }

gpiod_line_get_value(b, k) == IF k < b.run THEN 1 ELSE b.then

----------------------------------------------------------------------------
(* Private functions.  Each returns the sequence of events it causes on the *)
(* panel interface: <<"gpio", pin, value>> a signal drive, <<"cmd", byte>>  *)
(* and <<"data", byte>> a one-byte transfer, <<"delay_ms", n>>,             *)
(* <<"lcd_chkstatus", watchdog_counter, last level read>> a finished        *)
(* busy-wait, <<"printf", text>> a log line.                                *)

gpio_write(m, pin, value) ==
    LET line == IF pin = DC_PIN THEN m.dc_line
                ELSE IF pin = RST_PIN THEN m.rst_line
                ELSE NULL
    IN  IF line # NULL THEN << <<"gpio", pin, value>> >> ELSE <<>>

\* the k-th read of the busy line in a busy-wait against behaviour b
gpio_read(m, pin, b, k) ==
    IF pin = BUSY_PIN /\ m.busy_line # NULL
    THEN gpiod_line_get_value(b, k)
    ELSE -1

\* the while loop of lcd_chkstatus, at most n more evaluations of its
\* condition, starting with watchdog_counter = c; the loop is split in halves
\* so that the evaluation depth stays logarithmic
RECURSIVE lcd_chkstatus_loop(_, _, _, _)
lcd_chkstatus_loop(m, b, c, n) ==
    IF n = 0 THEN [watchdog_counter |-> c, exited |-> FALSE, read |-> 1]
    ELSE IF n = 1 THEN
        LET v == gpio_read(m, BUSY_PIN, b, c)
        IN  IF v = 1 /\ c < WATCHDOG_LIMIT
            THEN [watchdog_counter |-> c + 1, exited |-> FALSE, read |-> v]
            ELSE [watchdog_counter |-> c, exited |-> TRUE, read |-> v]
    ELSE
        LET h == n \div 2
            first == lcd_chkstatus_loop(m, b, c, h)
        IN  IF first.exited THEN first
            ELSE lcd_chkstatus_loop(m, b, first.watchdog_counter, n - h)

lcd_chkstatus_run(m, b) ==
    LET r == lcd_chkstatus_loop(m, b, 0, WATCHDOG_LIMIT + 1)
    IN  << <<"lcd_chkstatus", r.watchdog_counter, r.read>> >>
        \o (IF r.watchdog_counter >= WATCHDOG_LIMIT
            THEN << <<"printf", "Warning: Display busy timeout">> >>
            ELSE <<>>)

\* lcd_chkstatus reads nothing of the statics but busy_line: its runs against
\* each behaviour of the busy line are evaluated once and looked up
BusyWaits ==
    [line \in {NULL, BUSY_PIN}, b \in BusyBehaviours |->
        lcd_chkstatus_run([busy_line |-> line], b)]

lcd_chkstatus(m, b) ==
    IF <<m.busy_line, b>> \in DOMAIN BusyWaits
    THEN BusyWaits[m.busy_line, b]
    ELSE lcd_chkstatus_run(m, b)

epd_w21_write_cmd(m, cmd) ==
    IF m.spi_fd < 0 THEN <<>>
    ELSE gpio_write(m, DC_PIN, 0) \o << <<"cmd", cmd>> >>

epd_w21_write_data(m, data) ==
    IF m.spi_fd < 0 THEN <<>>
    ELSE gpio_write(m, DC_PIN, 1) \o << <<"data", data>> >>

\* bs: the busy line's behaviour in each of the three busy-waits
epd_init_hardware(m, bs) ==
    gpio_write(m, RST_PIN, 0) \o << <<"delay_ms", 10>> >>
    \o gpio_write(m, RST_PIN, 1) \o << <<"delay_ms", 10>> >>
    \o lcd_chkstatus(m, bs[1])
    \o epd_w21_write_cmd(m, 18)                        \* 0x12 SWRESET
    \o lcd_chkstatus(m, bs[2])
    \o epd_w21_write_cmd(m, 1)                         \* 0x01
    \o epd_w21_write_data(m, (EPD_HEIGHT - 1) % 256)
    \o epd_w21_write_data(m, (EPD_HEIGHT - 1) \div 256)
    \o epd_w21_write_data(m, 0)
    \o epd_w21_write_cmd(m, 17)                        \* 0x11
    \o epd_w21_write_data(m, 1)
    \o epd_w21_write_cmd(m, 68)                        \* 0x44
    \o epd_w21_write_data(m, 0)
    \o epd_w21_write_data(m, EPD_WIDTH \div 8 - 1)
    \o epd_w21_write_cmd(m, 69)                        \* 0x45
    \o epd_w21_write_data(m, (EPD_HEIGHT - 1) % 256)
    \o epd_w21_write_data(m, (EPD_HEIGHT - 1) \div 256)
    \o epd_w21_write_data(m, 0)
    \o epd_w21_write_data(m, 0)
    \o epd_w21_write_cmd(m, 60)                        \* 0x3C
    \o epd_w21_write_data(m, 5)
    \o epd_w21_write_cmd(m, 33)                        \* 0x21
    \o epd_w21_write_data(m, 0)
    \o epd_w21_write_data(m, 128)
    \o epd_w21_write_cmd(m, 24)                        \* 0x18
    \o epd_w21_write_data(m, 128)
    \o epd_w21_write_cmd(m, 78)                        \* 0x4E
    \o epd_w21_write_data(m, 0)
    \o epd_w21_write_cmd(m, 79)                        \* 0x4F
    \o epd_w21_write_data(m, (EPD_HEIGHT - 1) % 256)
    \o epd_w21_write_data(m, (EPD_HEIGHT - 1) \div 256)
    \o lcd_chkstatus(m, bs[3])

epd_init_partial(m) ==
    epd_w21_write_cmd(m, 60)                           \* 0x3C
    \o epd_w21_write_data(m, 128)                      \* 0x80

epd_update(m, b) ==
    epd_w21_write_cmd(m, 34)                           \* 0x22
    \o epd_w21_write_data(m, 247)                      \* 0xF7
    \o epd_w21_write_cmd(m, 32)                        \* 0x20
    \o lcd_chkstatus(m, b)

epd_update_partial(m, b) ==
    epd_w21_write_cmd(m, 34)                           \* 0x22
    \o epd_w21_write_data(m, 255)                      \* 0xFF
    \o epd_w21_write_cmd(m, 32)                        \* 0x20
    \o lcd_chkstatus(m, b)

----------------------------------------------------------------------------
(* Image codec.                                                             *)
(*                                                                          *)
(* A file is what lodepng_decode32_file makes of it: an error code, or a    *)
(* width, a height and the RGBA samples.  The samples of the files used     *)
(* here are given by a rule (pix) instead of a table of width*height*4      *)
(* numbers: "single" is a background colour with one pixel of another       *)
(* colour, "gradient" runs red and green through their values.              *)

\* A buffer of bytes is a sequence: byte i of the buffer is element i + 1.
memset(buf, value, n) ==
    [i \in 1..n |-> value] \o SubSeq(buf, n + 1, Len(buf))

Black == <<0, 0, 0, 255>>
White == <<255, 255, 255, 255>>

Colours ==
    { Black, White,
      <<128, 128, 128, 255>>,      \* mean exactly 128
      <<128, 128, 129, 255>>,      \* sum 385
      <<129, 129, 128, 255>>,      \* sum 386
      <<129, 129, 129, 255>>,      \* sum 387
      <<127, 127, 127, 255>>,
      <<255, 130, 0, 255>>,        \* sum 385, not gray
      <<255, 255, 255, 0>>,        \* white, fully transparent
      <<0, 0, 0, 0>> }

Single(bg, fg, at) == [kind |-> "single", bg |-> bg, fg |-> fg, at |-> at]
Gradient(b, a) == [kind |-> "gradient", b |-> b, a |-> a]

Decoded(w, h, pix) == [error |-> 0, width |-> w, height |-> h, pix |-> pix]
Undecodable(e) == [error |-> e, width |-> 0, height |-> 0, pix |-> Single(Black, Black, 0)]

\* image_data[i] of a decoded file
ImageData(file, i) ==
    LET p == i \div 4
        c == i % 4
        pix == file.pix
    IN  IF pix.kind = "single"
        THEN (IF p = pix.at THEN pix.fg ELSE pix.bg)[c + 1]
        ELSE IF c = 0 THEN p % 256
        ELSE IF c = 1 THEN (p \div 256) % 256
        ELSE IF c = 2 THEN pix.b
        ELSE pix.a

lodepng_decode32_file(filename, file) == file

\* line 380: the sum is an int, the quotient is stored in an unsigned char
gray_of(r, g, b) == ((r + g + b) \div 3) % 256

\* the threshold test with >= for >
bit_of_ge(gray) == IF gray >= GRAY_THRESHOLD THEN 1 ELSE 0

\* line 383
bit_of(gray) == IF gray > GRAY_THRESHOLD THEN 1 ELSE 0

\* least significant bit first
bit_pos_of_lsb(bit_idx) == bit_idx % 8

\* line 388
bit_pos_of(bit_idx) == 7 - (bit_idx % 8)

\* byte | (1 << pos), kept in 8 bits
OrBit(byte, pos) ==
    IF (byte \div (2 ^ pos)) % 2 = 1 THEN byte ELSE (byte + 2 ^ pos) % 256

\* the body of the inner loop, lines 376-392; out holds the output buffer
\* and the bytes behind it that the model observes
convert_pixel(file, width, x, y, out) ==
    LET pixel_idx == y * width + x
        rgba_idx == pixel_idx * 4
        gray == gray_of(ImageData(file, rgba_idx),
                        ImageData(file, rgba_idx + 1),
                        ImageData(file, rgba_idx + 2))
        bit == bit_of(gray)
        bit_idx == pixel_idx
        byte_idx == bit_idx \div 8
        bit_pos == bit_pos_of(bit_idx)
    IN  IF bit = 1 /\ byte_idx < Len(out)
        THEN [out EXCEPT ![byte_idx + 1] = OrBit(@, bit_pos)]
        ELSE out

\* the inner loop for x in lo..hi-1, and the outer loop for y in lo..hi-1;
\* each is split in halves so that the evaluation depth stays logarithmic.
\* The second half starts from the buffer the first half has left: Then
\* binds that buffer as a value before the second half is entered, as the
\* loop runs its iterations in order.
TheOne(S) == CHOOSE v \in S : TRUE

RECURSIVE convert_row(_, _, _, _, _, _)
convert_row(file, width, y, lo, hi, out) ==
    IF hi <= lo THEN out
    ELSE IF hi = lo + 1 THEN convert_pixel(file, width, lo, y, out)
    ELSE LET mid == (lo + hi) \div 2
         IN  TheOne({ convert_row(file, width, y, mid, hi, first) :
                        first \in {convert_row(file, width, y, lo, mid, out)} })

RECURSIVE convert_rows(_, _, _, _, _, _)
convert_rows(file, width, height, lo, hi, out) ==
    IF hi <= lo THEN out
    ELSE IF hi = lo + 1 THEN convert_row(file, width, lo, 0, width, out)
    ELSE LET mid == (lo + hi) \div 2
         IN  TheOne({ convert_rows(file, width, height, mid, hi, first) :
                        first \in {convert_rows(file, width, height, lo, mid, out)} })

\* convert_png_to_1bit clearing the output buffer before it checks the
\* dimensions
convert_png_to_1bit_early_memset(filename, file, output, buf) ==
    IF filename = NULL \/ output = NULL
    THEN [ret |-> FALSE, out |-> buf]
    ELSE LET img == lodepng_decode32_file(filename, file)
         IN  IF img.error # 0
             THEN [ret |-> FALSE, out |-> buf]
             ELSE IF img.width # EPD_WIDTH \/ img.height # EPD_HEIGHT
             THEN [ret |-> FALSE, out |-> memset(buf, 0, EPD_ARRAY)]
             ELSE [ret |-> TRUE,
                   out |-> TheOne({ convert_rows(img, img.width, img.height,
                                                 0, img.height, zeroed) :
                                      zeroed \in {memset(buf, 0, EPD_ARRAY)} })]

\* filename, output: the pointers passed; file: what filename names;
\* buf: the memory output points to (with the bytes that follow it)
convert_png_to_1bit(filename, file, output, buf) ==
    IF filename = NULL \/ output = NULL
    THEN [ret |-> FALSE, out |-> buf]
    ELSE LET img == lodepng_decode32_file(filename, file)
         IN  IF img.error # 0
             THEN [ret |-> FALSE, out |-> buf]
             ELSE IF img.width # EPD_WIDTH \/ img.height # EPD_HEIGHT
             THEN [ret |-> FALSE, out |-> buf]
             ELSE [ret |-> TRUE,
                   out |-> TheOne({ convert_rows(img, img.width, img.height,
                                                 0, img.height, zeroed) :
                                      zeroed \in {memset(buf, 0, EPD_ARRAY)} })]

\* what an array on the stack holds before it is written: the code writes
\* every byte of white_data and image_data before it reads one
Stacks == { [i \in 1..EPD_ARRAY |-> v] : v \in {0, 170} }

\* the files display_image_png is called with
ValidFile == Decoded(EPD_WIDTH, EPD_HEIGHT, Single(Black, White, 0))

\* decodable files whose dimensions are not the panel's
MismatchedFiles ==
    { Decoded(d[1], d[2], Single(White, White, 0)) :
        d \in { <<100, 100>>, <<EPD_WIDTH, EPD_HEIGHT - 1>>,
                <<EPD_WIDTH + 1, EPD_HEIGHT>>, <<EPD_HEIGHT, EPD_WIDTH>> } }

DriverFiles == {Undecodable(78), ValidFile} \cup MismatchedFiles

\* convert_png_to_1bit(filename, image_data) for each of them, evaluated once
ConvertedOnStack ==
    [file \in DriverFiles, stack \in Stacks |->
        convert_png_to_1bit(PNG_PATH, file, FRAME_PTR, stack)]

----------------------------------------------------------------------------
(* Public functions, as functions of the statics m and of what the          *)
(* environment does during the call.                                        *)

\* display_cleanup without the release of the busy line
display_cleanup_keeps_busy(m) ==
    LET s1 == IF m.spi_fd >= 0 THEN << <<"close", "spi", TRUE>> >> ELSE <<>>
        s2 == IF m.dc_line # NULL
              THEN << <<"gpiod_line_release", LineRes(m.dc_line), TRUE>> >>
              ELSE <<>>
        s3 == IF m.rst_line # NULL
              THEN << <<"gpiod_line_release", LineRes(m.rst_line), TRUE>> >>
              ELSE <<>>
        s5 == IF m.chip # NULL
              THEN << <<"gpiod_chip_close", "chip", TRUE>> >>
              ELSE <<>>
        released ==
            (IF m.spi_fd >= 0 THEN {"spi"} ELSE {})
            \cup (IF m.dc_line # NULL THEN {LineRes(m.dc_line)} ELSE {})
            \cup (IF m.rst_line # NULL THEN {LineRes(m.rst_line)} ELSE {})
            \cup (IF m.chip # NULL THEN {"chip"} ELSE {})
    IN  [m |-> [spi_fd |-> -1, chip |-> NULL, dc_line |-> NULL,
                rst_line |-> NULL, busy_line |-> NULL,
                initialized |-> FALSE, held |-> m.held \ released],
         sys |-> s1 \o s2 \o s3 \o s5]

\* sys events: <<function, resource or request, succeeded>>
display_cleanup(m) ==
    LET s1 == IF m.spi_fd >= 0 THEN << <<"close", "spi", TRUE>> >> ELSE <<>>
        s2 == IF m.dc_line # NULL
              THEN << <<"gpiod_line_release", LineRes(m.dc_line), TRUE>> >>
              ELSE <<>>
        s3 == IF m.rst_line # NULL
              THEN << <<"gpiod_line_release", LineRes(m.rst_line), TRUE>> >>
              ELSE <<>>
        s4 == IF m.busy_line # NULL
              THEN << <<"gpiod_line_release", LineRes(m.busy_line), TRUE>> >>
              ELSE <<>>
        s5 == IF m.chip # NULL
              THEN << <<"gpiod_chip_close", "chip", TRUE>> >>
              ELSE <<>>
        released ==
            (IF m.spi_fd >= 0 THEN {"spi"} ELSE {})
            \cup (IF m.dc_line # NULL THEN {LineRes(m.dc_line)} ELSE {})
            \cup (IF m.rst_line # NULL THEN {LineRes(m.rst_line)} ELSE {})
            \cup (IF m.busy_line # NULL THEN {LineRes(m.busy_line)} ELSE {})
            \cup (IF m.chip # NULL THEN {"chip"} ELSE {})
    IN  [m |-> [spi_fd |-> -1, chip |-> NULL, dc_line |-> NULL,
                rst_line |-> NULL, busy_line |-> NULL,
                initialized |-> FALSE, held |-> m.held \ released],
         sys |-> s1 \o s2 \o s3 \o s4 \o s5]

\* What can go wrong while display_init acquires its resources: `step` names
\* the call that fails ("none": nothing fails); for "get", `pins` are the
\* pins whose line lookup fails.
InitFaults ==
    { [step |-> s, pins |-> {}] :
        s \in {"none", "open", "mode", "bits", "speed", "chip",
               "req_dc", "req_rst", "req_busy"} }
    \cup { [step |-> "get", pins |-> P] :
             P \in (SUBSET {DC_PIN, RST_PIN, BUSY_PIN}) \ {{}} }

\* lines 195-213: open and configure the bus
init_spi(m, f) ==
    IF f.step = "open"
    THEN [m |-> [m EXCEPT !.spi_fd = -1], ok |-> FALSE,
          sys |-> << <<"open", "spi", FALSE>> >>]
    ELSE
      LET opened == [m EXCEPT !.spi_fd = SPI_DEV_FD, !.held = @ \cup {"spi"}]
          closed == [opened EXCEPT !.spi_fd = -1, !.held = @ \ {"spi"}]
          o == << <<"open", "spi", TRUE>> >>
          c == << <<"close", "spi", TRUE>> >>
      IN  IF f.step = "mode"
          THEN [m |-> closed, ok |-> FALSE,
                sys |-> o \o << <<"ioctl", "SPI_IOC_WR_MODE", FALSE>> >> \o c]
          ELSE IF f.step = "bits"
          THEN [m |-> closed, ok |-> FALSE,
                sys |-> o \o << <<"ioctl", "SPI_IOC_WR_MODE", TRUE>>,
                                <<"ioctl", "SPI_IOC_WR_BITS_PER_WORD", FALSE>> >>
                          \o c]
          ELSE IF f.step = "speed"
          THEN [m |-> closed, ok |-> FALSE,
                sys |-> o \o << <<"ioctl", "SPI_IOC_WR_MODE", TRUE>>,
                                <<"ioctl", "SPI_IOC_WR_BITS_PER_WORD", TRUE>>,
                                <<"ioctl", "SPI_IOC_WR_MAX_SPEED_HZ", FALSE>> >>
                          \o c]
          ELSE [m |-> opened, ok |-> TRUE,
                sys |-> o \o << <<"ioctl", "SPI_IOC_WR_MODE", TRUE>>,
                                <<"ioctl", "SPI_IOC_WR_BITS_PER_WORD", TRUE>>,
                                <<"ioctl", "SPI_IOC_WR_MAX_SPEED_HZ", TRUE>> >>]

\* init_chip returning without closing the bus when the chip fails to open
init_chip_leak(m, f) ==
    IF f.step = "chip"
    THEN [m |-> [m EXCEPT !.chip = NULL], ok |-> FALSE,
          sys |-> << <<"gpiod_chip_open_by_name", "chip", FALSE>> >>]
    ELSE [m |-> [m EXCEPT !.chip = GPIOCHIP0, !.held = @ \cup {"chip"}],
          ok |-> TRUE,
          sys |-> << <<"gpiod_chip_open_by_name", "chip", TRUE>> >>]

\* lines 216-222: open the GPIO chip
init_chip(m, f) ==
    IF f.step = "chip"
    THEN [m |-> [m EXCEPT !.chip = NULL, !.spi_fd = -1, !.held = @ \ {"spi"}],
          ok |-> FALSE,
          sys |-> << <<"gpiod_chip_open_by_name", "chip", FALSE>>,
                     <<"close", "spi", TRUE>> >>]
    ELSE [m |-> [m EXCEPT !.chip = GPIOCHIP0, !.held = @ \cup {"chip"}],
          ok |-> TRUE,
          sys |-> << <<"gpiod_chip_open_by_name", "chip", TRUE>> >>]

\* lines 225-233: look the three lines up
init_get_lines(m, f) ==
    LET get(pin) == IF f.step = "get" /\ pin \in f.pins
                    THEN NULL ELSE gpiod_chip_get_line(m.chip, pin)
        got == [m EXCEPT !.dc_line = get(DC_PIN), !.rst_line = get(RST_PIN),
                         !.busy_line = get(BUSY_PIN)]
        s == << <<"gpiod_chip_get_line", "dc", got.dc_line # NULL>>,
                <<"gpiod_chip_get_line", "rst", got.rst_line # NULL>>,
                <<"gpiod_chip_get_line", "busy", got.busy_line # NULL>> >>
    IN  IF got.dc_line = NULL \/ got.rst_line = NULL \/ got.busy_line = NULL
        THEN LET c == display_cleanup(got)
             IN  [m |-> c.m, ok |-> FALSE, sys |-> s \o c.sys]
        ELSE [m |-> got, ok |-> TRUE, sys |-> s]

\* init_request_lines returning without display_cleanup when a request fails
init_request_lines_no_cleanup(m, f) ==
    LET n == IF f.step = "req_dc" THEN 0
             ELSE IF f.step = "req_rst" THEN 1
             ELSE IF f.step = "req_busy" THEN 2
             ELSE 3
        all == << <<"gpiod_line_request_output", "dc", n > 0>>,
                  <<"gpiod_line_request_output", "rst", n > 1>>,
                  <<"gpiod_line_request_input", "busy", n > 2>> >>
        s == SubSeq(all, 1, IF n < 3 THEN n + 1 ELSE 3)
        req == [m EXCEPT !.held = @ \cup {all[i][2] : i \in 1..n}]
    IN  [m |-> req, ok |-> n = 3, sys |-> s]

\* lines 235-241: request the three lines; || stops at the first failure
init_request_lines(m, f) ==
    LET n == IF f.step = "req_dc" THEN 0
             ELSE IF f.step = "req_rst" THEN 1
             ELSE IF f.step = "req_busy" THEN 2
             ELSE 3                       \* number of requests that succeed
        all == << <<"gpiod_line_request_output", "dc", n > 0>>,
                  <<"gpiod_line_request_output", "rst", n > 1>>,
                  <<"gpiod_line_request_input", "busy", n > 2>> >>
        s == SubSeq(all, 1, IF n < 3 THEN n + 1 ELSE 3)
        req == [m EXCEPT !.held = @ \cup {all[i][2] : i \in 1..n}]
    IN  IF n < 3
        THEN LET c == display_cleanup(req)
             IN  [m |-> c.m, ok |-> FALSE, sys |-> s \o c.sys]
        ELSE [m |-> req, ok |-> TRUE, sys |-> s]

\* lines 194-248: display_init past its guard
display_init_acquire(m, f, bs) ==
    LET a == init_spi(m, f) IN
    IF ~a.ok THEN [m |-> a.m, ret |-> FALSE, bus |-> <<>>, sys |-> a.sys]
    ELSE
    LET b == init_chip(a.m, f) IN
    IF ~b.ok
    THEN [m |-> b.m, ret |-> FALSE, bus |-> <<>>, sys |-> a.sys \o b.sys]
    ELSE
    LET c == init_get_lines(b.m, f) IN
    IF ~c.ok
    THEN [m |-> c.m, ret |-> FALSE, bus |-> <<>>,
          sys |-> a.sys \o b.sys \o c.sys]
    ELSE
    LET d == init_request_lines(c.m, f) IN
    IF ~d.ok
    THEN [m |-> d.m, ret |-> FALSE, bus |-> <<>>,
          sys |-> a.sys \o b.sys \o c.sys \o d.sys]
    ELSE [m |-> [d.m EXCEPT !.initialized = TRUE], ret |-> TRUE,
          bus |-> epd_init_hardware(d.m, bs),
          sys |-> a.sys \o b.sys \o c.sys \o d.sys]

\* display_init without the guard of lines 190-192
display_init_unguarded(m, f, bs) == display_init_acquire(m, f, bs)

display_init(m, f, bs) ==
    IF m.initialized
    THEN [m |-> m, ret |-> TRUE, bus |-> <<>>, sys |-> <<>>]
    ELSE display_init_acquire(m, f, bs)

\* the frames display_image_raw is called with by its callers
WhiteFrame == [i \in 1..EPD_ARRAY |-> 255]
BlackFrame == [i \in 1..EPD_ARRAY |-> 0]
RampFrame == [i \in 1..EPD_ARRAY |-> (i - 1) % 256]
Frames == {WhiteFrame, BlackFrame, RampFrame}
FrameBuffers ==
    Frames \cup { ConvertedOnStack[c].out :
                    c \in { d \in DOMAIN ConvertedOnStack :
                              ConvertedOnStack[d].ret } }

\* the for loop of display_image_raw over i in lo..hi-1, split in halves so
\* that the evaluation depth stays logarithmic
RECURSIVE write_frame(_, _, _, _)
write_frame(m, frame, lo, hi) ==
    IF hi <= lo THEN <<>>
    ELSE IF hi = lo + 1 THEN epd_w21_write_data(m, frame[lo + 1])
    ELSE LET mid == (lo + hi) \div 2
         IN  write_frame(m, frame, lo, mid) \o write_frame(m, frame, mid, hi)

\* the loop stopping one byte short of the frame
write_frames_short(m, frame) == write_frame(m, frame, 0, EPD_ARRAY - 1)

\* the whole loop reads nothing of the statics but spi_fd and dc_line: its
\* runs over the frames of the model are evaluated once and looked up
WrittenFrames ==
    [fd \in {-1, SPI_DEV_FD}, dc \in {NULL, DC_PIN}, frame \in FrameBuffers |->
        write_frame([spi_fd |-> fd, dc_line |-> dc], frame, 0, EPD_ARRAY)]

write_frames(m, frame) ==
    IF <<m.spi_fd, m.dc_line, frame>> \in DOMAIN WrittenFrames
    THEN WrittenFrames[m.spi_fd, m.dc_line, frame]
    ELSE write_frame(m, frame, 0, EPD_ARRAY)

\* display_image_raw with && for || in its precondition check
display_image_raw_and(m, data, frame, mode, b) ==
    IF ~m.initialized /\ data = NULL
    THEN [ret |-> FALSE, bus |-> <<>>]
    ELSE [ret |-> TRUE,
          bus |-> (IF mode = DISPLAY_MODE_PARTIAL
                   THEN epd_init_partial(m) ELSE <<>>)
                  \o epd_w21_write_cmd(m, 36)
                  \o write_frame(m, frame, 0, IF data = NULL THEN 0 ELSE EPD_ARRAY)
                  \o (IF mode = DISPLAY_MODE_FULL
                      THEN epd_update(m, b)
                      ELSE epd_update_partial(m, b))]

\* display_image_raw setting the partial border waveform in both modes
display_image_raw_border(m, data, frame, mode, b) ==
    IF ~m.initialized \/ data = NULL
    THEN [ret |-> FALSE, bus |-> <<>>]
    ELSE [ret |-> TRUE,
          bus |-> epd_init_partial(m)
                  \o epd_w21_write_cmd(m, 36)
                  \o write_frame(m, frame, 0, EPD_ARRAY)
                  \o (IF mode = DISPLAY_MODE_FULL
                      THEN epd_update(m, b)
                      ELSE epd_update_partial(m, b))]

\* data: the pointer passed; frame: the bytes it points to, when not null
display_image_raw(m, data, frame, mode, b) ==
    IF ~m.initialized \/ data = NULL
    THEN [ret |-> FALSE, bus |-> <<>>]
    ELSE [ret |-> TRUE,
          bus |-> (IF mode = DISPLAY_MODE_PARTIAL
                   THEN epd_init_partial(m) ELSE <<>>)
                  \o epd_w21_write_cmd(m, 36)          \* 0x24
                  \o write_frames(m, frame)
                  \o (IF mode = DISPLAY_MODE_FULL
                      THEN epd_update(m, b)
                      ELSE epd_update_partial(m, b))]

\* display_clear filling its frame with 0x00
display_clear_black(m, stack, b) ==
    IF ~m.initialized
    THEN [ret |-> FALSE, bus |-> <<>>]
    ELSE LET white_data == memset(stack, 0, EPD_ARRAY)
         IN  display_image_raw(m, FRAME_PTR, white_data, DISPLAY_MODE_FULL, b)

\* stack: what the uninitialized array white_data holds on entry
display_clear(m, stack, b) ==
    IF ~m.initialized
    THEN [ret |-> FALSE, bus |-> <<>>]
    ELSE LET white_data == memset(stack, 255, EPD_ARRAY)
         IN  display_image_raw(m, FRAME_PTR, white_data, DISPLAY_MODE_FULL, b)

display_sleep(m) ==
    IF ~m.initialized
    THEN [ret |-> VOID, bus |-> <<>>]
    ELSE [ret |-> VOID,
          bus |-> epd_w21_write_cmd(m, 16)             \* 0x10
                  \o epd_w21_write_data(m, 1)
                  \o << <<"delay_ms", 100>> >>]

display_image_png(m, filename, file, stack, mode, b) ==
    IF ~m.initialized \/ filename = NULL
    THEN [ret |-> FALSE, bus |-> <<>>]
    ELSE LET conv == ConvertedOnStack[file, stack]
         IN  IF ~conv.ret
             THEN [ret |-> FALSE, bus |-> <<>>]
             ELSE display_image_raw(m, FRAME_PTR, conv.out, mode, b)

----------------------------------------------------------------------------
(* Inputs *)

\* the busy line during the three busy-waits of epd_init_hardware: at most
\* one of them sees anything but an idle line
InitBusy ==
    { <<b, Idle, Idle>> : b \in BusyBehaviours }
    \cup { <<Idle, b, Idle>> : b \in BusyBehaviours }
    \cup { <<Idle, Idle, b>> : b \in BusyBehaviours }

Modes == {DISPLAY_MODE_FULL, DISPLAY_MODE_PARTIAL}

\* display_image_raw: a null pointer, or a frame and a mode; the busy line
\* shows each of its behaviours during the display of the white frame
RawInputs ==
    { [data |-> NULL, frame |-> <<>>, mode |-> mode, busy |-> Idle] :
        mode \in Modes }
    \cup { [data |-> FRAME_PTR, frame |-> frame, mode |-> mode, busy |-> Idle] :
             frame \in Frames, mode \in Modes }
    \cup { [data |-> FRAME_PTR, frame |-> WhiteFrame, mode |-> mode, busy |-> b] :
             mode \in Modes, b \in BusyBehaviours }

\* display_image_png: a null pointer, or a file and a mode; the busy line
\* shows each of its behaviours during the display of the valid file
PngInputs ==
    { [filename |-> NULL, file |-> <<>>, mode |-> mode, busy |-> Idle] :
        mode \in Modes }
    \cup { [filename |-> PNG_PATH, file |-> file, mode |-> mode, busy |-> Idle] :
             file \in DriverFiles, mode \in Modes }
    \cup { [filename |-> PNG_PATH, file |-> ValidFile, mode |-> mode, busy |-> b] :
             mode \in Modes, b \in BusyBehaviours }

\* display_init: acquisition succeeds and the busy line shows one of its
\* behaviours, or acquisition fails at one step
InitInputs ==
    { [fault |-> [step |-> "none", pins |-> {}], busy |-> bs] : bs \in InitBusy }
    \cup { [fault |-> f, busy |-> <<Idle, Idle, Idle>>] : f \in InitFaults }


----------------------------------------------------------------------------
(* Threads *)

\* the callers of the driver
Threads == {1, 2}

\* the file of a call that names none
NoFile == Undecodable(1)

\* a thread that has not called the driver yet.  op: the public function it
\* is in or has left last; data, frame, mode, filename, file: the arguments
\* (frame names the bytes data points to, file is what filename names);
\* todo: the calls and statements it has still to execute, next first;
\* ret: the value returned, if any; k: the number of protocol events (reset
\* drives, byte transfers, busy-waits) of the call so far and last: the
\* latest of them; acquired: the call has acquired the bus and the lines;
\* faulted: a drive or a transfer of the call failed or a busy-wait of it
\* timed out
NotCalled ==
    [op |-> "none", data |-> NULL, frame |-> "WhiteFrame",
     mode |-> DISPLAY_MODE_FULL, filename |-> NULL, file |-> NoFile,
     todo |-> <<>>, ret |-> <<>>, k |-> 0,
     last |-> <<"none">>, acquired |-> FALSE, faulted |-> FALSE]

----------------------------------------------------------------------------
(* The panel's border waveform register: it keeps the data byte that        *)
(* followed the latest command 0x3C.                                        *)

\* the register before the first command 0x3C
NOT_WRITTEN == -1

\* the transfers at which a log writes the register, before position n
BorderWrites(T, n) ==
    {i \in 1..(Len(T) - 1) :
       i + 1 < n /\ T[i] = <<"cmd", 60>> /\ T[i + 1][1] = "data"}

\* the register when transfer n of a log T is made, b being what it held
\* before the log
BorderAt(b, T, n) ==
    LET W == BorderWrites(T, n)
    IN  IF W = {} THEN b
        ELSE T[(CHOOSE i \in W : \A j \in W : j <= i) + 1][2]

\* the register after a call that did `log` on the panel interface
BorderAfter(b, log) ==
    CHOOSE v \in { BorderAt(b, T, Len(T) + 2) :
                     T \in {SelectSeq(log, LAMBDA e : e[1] \in {"cmd", "data"})} } :
      TRUE

----------------------------------------------------------------------------
(* The driver: one action per public function *)

SetStatics(m) ==
    /\ spi_fd' = m.spi_fd
    /\ chip' = m.chip
    /\ dc_line' = m.dc_line
    /\ rst_line' = m.rst_line
    /\ busy_line' = m.busy_line
    /\ initialized' = m.initialized
    /\ held' = m.held

Init ==
    /\ spi_fd = -1
    /\ chip = NULL
    /\ dc_line = NULL
    /\ rst_line = NULL
    /\ busy_line = NULL
    /\ initialized = FALSE
    /\ held = {}
    /\ panel_asleep = FALSE
    /\ panel_border = NOT_WRITTEN
    /\ init_ok = FALSE
    /\ call = [op |-> "start"]
    /\ ret = VOID
    /\ bus = <<>>
    /\ sys = <<>>
    /\ output_data = <<>>
    /\ conv_ret = VOID
    /\ thread = [t \in Threads |-> NotCalled]
    /\ wire = <<>>
    /\ dc_level = 0

DisplayInit ==
    \E in \in InitInputs :
        LET r == display_init(Machine, in.fault, in.busy)
        IN  /\ SetStatics(r.m)
            /\ call' = [op |-> "display_init"]
            /\ ret' = r.ret
            /\ bus' = r.bus
            /\ sys' = r.sys
            \* the reset pulse wakes the panel controller
            /\ panel_asleep' = IF r.bus # <<>> THEN FALSE ELSE panel_asleep
            /\ panel_border' = BorderAfter(panel_border, r.bus)
            /\ init_ok' = (init_ok \/ r.ret)
            /\ UNCHANGED <<codec_vars, step_vars>>

DisplayImageRaw ==
    \E in \in RawInputs :
        LET r == display_image_raw(Machine, in.data, in.frame, in.mode, in.busy)
        IN  /\ call' = [op |-> "display_image_raw", data |-> in.data,
                        frame |-> in.frame, mode |-> in.mode]
            /\ ret' = r.ret
            /\ bus' = r.bus
            /\ sys' = <<>>
            /\ panel_border' = BorderAfter(panel_border, r.bus)
            /\ UNCHANGED <<drv_vars, env_vars, codec_vars, step_vars>>

DisplayImagePng ==
    \E in \in PngInputs, stack \in Stacks :
        LET r == display_image_png(Machine, in.filename, in.file, stack,
                                   in.mode, in.busy)
        IN  /\ call' = [op |-> "display_image_png", filename |-> in.filename,
                        file |-> in.file, mode |-> in.mode]
            /\ ret' = r.ret
            /\ bus' = r.bus
            /\ sys' = <<>>
            /\ panel_border' = BorderAfter(panel_border, r.bus)
            /\ UNCHANGED <<drv_vars, env_vars, codec_vars, step_vars>>

DisplayClear ==
    \E stack \in Stacks, b \in BusyBehaviours :
        LET r == display_clear(Machine, stack, b)
        IN  /\ call' = [op |-> "display_clear"]
            /\ ret' = r.ret
            /\ bus' = r.bus
            /\ sys' = <<>>
            /\ panel_border' = BorderAfter(panel_border, r.bus)
            /\ UNCHANGED <<drv_vars, env_vars, codec_vars, step_vars>>

DisplaySleep ==
    LET r == display_sleep(Machine)
    IN  /\ call' = [op |-> "display_sleep"]
        /\ ret' = r.ret
        /\ bus' = r.bus
        /\ sys' = <<>>
        \* command 0x10 with data 0x01 puts the panel controller in deep sleep
        /\ panel_asleep' = IF r.bus # <<>> THEN TRUE ELSE panel_asleep
        /\ UNCHANGED <<drv_vars, held, panel_border, init_ok, codec_vars,
                       step_vars>>

DisplayCleanup ==
    LET r == display_cleanup(Machine)
    IN  /\ SetStatics(r.m)
        /\ call' = [op |-> "display_cleanup"]
        /\ ret' = VOID
        /\ bus' = <<>>
        /\ sys' = r.sys
        /\ init_ok' = FALSE
        /\ UNCHANGED <<panel_asleep, panel_border, codec_vars, step_vars>>

Next ==
    \/ DisplayInit
    \/ DisplayImageRaw
    \/ DisplayImagePng
    \/ DisplayClear
    \/ DisplaySleep
    \/ DisplayCleanup

Spec == Init /\ [][Next]_vars

----------------------------------------------------------------------------
(* The codec alone: convert_png_to_1bit is called once, on arguments and a  *)
(* file drawn by the initial state.  output_data is the caller's buffer     *)
(* followed by GuardLen bytes that are not part of it; before the call      *)
(* every byte holds call.stale.                                             *)

OUT_PTR == 1

PanelFiles ==
    { Decoded(EPD_WIDTH, EPD_HEIGHT, Single(Black, c, 0)) : c \in Colours }
    \cup { Decoded(EPD_WIDTH, EPD_HEIGHT, Single(Black, White, at)) :
             at \in {7, 8, EPD_WIDTH * EPD_HEIGHT - 1} }
    \cup { Decoded(EPD_WIDTH, EPD_HEIGHT, Single(White, Black, EPD_WIDTH)) }
    \cup { Decoded(EPD_WIDTH, EPD_HEIGHT, Gradient(b[1], b[2])) :
             b \in {<<0, 255>>, <<128, 255>>, <<129, 0>>, <<255, 255>>} }

OtherFiles ==
    { Decoded(d[1], d[2], Single(White, White, 0)) :
        d \in { <<100, 100>>, <<EPD_HEIGHT, EPD_WIDTH>>,
                <<EPD_WIDTH, EPD_HEIGHT - 1>>, <<EPD_WIDTH, EPD_HEIGHT + 1>>,
                <<EPD_WIDTH - 1, EPD_HEIGHT>>, <<EPD_WIDTH + 1, EPD_HEIGHT>>,
                <<2 * EPD_WIDTH, EPD_HEIGHT \div 2>>,
                <<EPD_WIDTH \div 2, 2 * EPD_HEIGHT>>,
                <<EPD_WIDTH, 1>>, <<1, EPD_HEIGHT>>, <<1, 1>>, <<0, 0>> } }
    \cup { Undecodable(e) : e \in {28, 48, 78} }

CodecInputs ==
    { [filename |-> PNG_PATH, output |-> OUT_PTR, file |-> f, stale |-> 170] :
        f \in PanelFiles }
    \cup { [filename |-> PNG_PATH, output |-> OUT_PTR, file |-> f, stale |-> 0] :
             f \in { Decoded(EPD_WIDTH, EPD_HEIGHT, Single(Black, White, 0)),
                     Decoded(EPD_WIDTH, EPD_HEIGHT, Single(Black, Black, 0)) } }
    \cup { [filename |-> PNG_PATH, output |-> OUT_PTR, file |-> f, stale |-> v] :
             f \in OtherFiles, v \in {0, 170} }
    \cup { [filename |-> p[1], output |-> p[2], file |-> ValidFile, stale |-> v] :
             p \in { <<NULL, OUT_PTR>>, <<PNG_PATH, NULL>>, <<NULL, NULL>> },
             v \in {0, 170} }

InitCodec ==
    /\ spi_fd = -1
    /\ chip = NULL
    /\ dc_line = NULL
    /\ rst_line = NULL
    /\ busy_line = NULL
    /\ initialized = FALSE
    /\ held = {}
    /\ panel_asleep = FALSE
    /\ panel_border = NOT_WRITTEN
    /\ init_ok = FALSE
    /\ ret = VOID
    /\ bus = <<>>
    /\ sys = <<>>
    /\ conv_ret = VOID
    /\ thread = [t \in Threads |-> NotCalled]
    /\ wire = <<>>
    /\ dc_level = 0
    /\ \E in \in CodecInputs :
         /\ call = [op |-> "arguments", filename |-> in.filename,
                    output |-> in.output, file |-> in.file, stale |-> in.stale]
         /\ output_data = [i \in 1..(EPD_ARRAY + GuardLen) |-> in.stale]

ConvertPngTo1bit ==
    /\ call.op = "arguments"
    /\ LET r == convert_png_to_1bit(call.filename, call.file, call.output,
                                    output_data)
       IN  /\ output_data' = r.out
           /\ conv_ret' = r.ret
    /\ call' = [call EXCEPT !.op = "convert_png_to_1bit"]
    /\ UNCHANGED <<drv_vars, env_vars, panel_border, ret, bus, sys, step_vars>>

NextCodec == ConvertPngTo1bit

SpecCodec == InitCodec /\ [][NextCodec]_vars

----------------------------------------------------------------------------
(* The driver step by step.                                                 *)
(*                                                                          *)
(* A thread inside a public function keeps in `todo` the calls and          *)
(* statements it has still to execute, next first.  A step executes the     *)
(* first of them against the statics as they are at that moment: a call     *)
(* of a function is replaced by the function's body, a system call acts on  *)
(* the outside world.  The steps are as fine as the accesses to the panel   *)
(* interface: the drive of the data/command-select line and the transfer    *)
(* of the byte are two steps, so are two polls of the busy line.  Every     *)
(* drive and every transfer can fail, every poll can read any level.        *)

\* the private functions as lists of calls: lines 120-166, 168-172, 174-179,
\* 181-186
epd_init_hardware_body ==
    << <<"gpio_write", RST_PIN, 0>>, <<"delay_ms", 10>>,
       <<"gpio_write", RST_PIN, 1>>, <<"delay_ms", 10>>,
       <<"lcd_chkstatus">>,
       <<"epd_w21_write_cmd", 18>>,                       \* 0x12 SWRESET
       <<"lcd_chkstatus">>,
       <<"epd_w21_write_cmd", 1>>,                        \* 0x01
       <<"epd_w21_write_data", (EPD_HEIGHT - 1) % 256>>,
       <<"epd_w21_write_data", (EPD_HEIGHT - 1) \div 256>>,
       <<"epd_w21_write_data", 0>>,
       <<"epd_w21_write_cmd", 17>>,                       \* 0x11
       <<"epd_w21_write_data", 1>>,
       <<"epd_w21_write_cmd", 68>>,                       \* 0x44
       <<"epd_w21_write_data", 0>>,
       <<"epd_w21_write_data", EPD_WIDTH \div 8 - 1>>,
       <<"epd_w21_write_cmd", 69>>,                       \* 0x45
       <<"epd_w21_write_data", (EPD_HEIGHT - 1) % 256>>,
       <<"epd_w21_write_data", (EPD_HEIGHT - 1) \div 256>>,
       <<"epd_w21_write_data", 0>>,
       <<"epd_w21_write_data", 0>>,
       <<"epd_w21_write_cmd", 60>>,                       \* 0x3C
       <<"epd_w21_write_data", 5>>,
       <<"epd_w21_write_cmd", 33>>,                       \* 0x21
       <<"epd_w21_write_data", 0>>,
       <<"epd_w21_write_data", 128>>,
       <<"epd_w21_write_cmd", 24>>,                       \* 0x18
       <<"epd_w21_write_data", 128>>,
       <<"epd_w21_write_cmd", 78>>,                       \* 0x4E
       <<"epd_w21_write_data", 0>>,
       <<"epd_w21_write_cmd", 79>>,                       \* 0x4F
       <<"epd_w21_write_data", (EPD_HEIGHT - 1) % 256>>,
       <<"epd_w21_write_data", (EPD_HEIGHT - 1) \div 256>>,
       <<"lcd_chkstatus">> >>

epd_init_partial_body ==
    << <<"epd_w21_write_cmd", 60>>, <<"epd_w21_write_data", 128>> >>

epd_update_body ==
    << <<"epd_w21_write_cmd", 34>>, <<"epd_w21_write_data", 247>>,
       <<"epd_w21_write_cmd", 32>>, <<"lcd_chkstatus">> >>

epd_update_partial_body ==
    << <<"epd_w21_write_cmd", 34>>, <<"epd_w21_write_data", 255>>,
       <<"epd_w21_write_cmd", 32>>, <<"lcd_chkstatus">> >>

\* lcd_chkstatus starts its loop with watchdog_counter = 0
lcd_chkstatus_body == << <<"while", 0>> >>

Body ==
    [epd_init_hardware |-> epd_init_hardware_body,
     epd_init_partial |-> epd_init_partial_body,
     epd_update |-> epd_update_body,
     epd_update_partial |-> epd_update_partial_body,
     lcd_chkstatus |-> lcd_chkstatus_body]

\* the frames a thread can point display_image_raw to, by name
ConvertedFrame == ConvertedOnStack[ValidFile, [i \in 1..EPD_ARRAY |-> 0]].out

FrameNames == {"WhiteFrame", "BlackFrame", "RampFrame", "ConvertedFrame"}

FrameNamed(n) ==
    IF n = "WhiteFrame" THEN WhiteFrame
    ELSE IF n = "BlackFrame" THEN BlackFrame
    ELSE IF n = "RampFrame" THEN RampFrame
    ELSE ConvertedFrame

NameOf(frame) == CHOOSE n \in FrameNames : FrameNamed(n) = frame

\* lines 194-241: the acquisitions of display_init, one after the other
init_acquire(m, f) ==
    LET a == init_spi(m, f) IN
    IF ~a.ok THEN a
    ELSE LET b == init_chip(a.m, f) IN
    IF ~b.ok THEN b
    ELSE LET c == init_get_lines(b.m, f) IN
    IF ~c.ok THEN c
    ELSE init_request_lines(c.m, f)

\* what the steps of the driver leave alone
rest_vars == <<panel_asleep, panel_border, init_ok, obs_vars, codec_vars>>

Cur(t) == Head(thread[t].todo)
At(t, name) == thread[t].todo # <<>> /\ Cur(t)[1] = name

\* the wire keeps the latest Window events: who caused it, the event, the
\* descriptor a transfer was made on, the level of the data/command-select
\* line after it, the number of bytes a transfer carried
Latest(w) ==
    IF Len(w) > Window THEN SubSeq(w, Len(w) - Window + 1, Len(w)) ELSE w

Entry(t, ev, fd, dc, len) ==
    [by |-> t, ev |-> ev, fd |-> fd, dc |-> dc, len |-> len]

\* a thread that is not inside the driver calls one of its public functions
Call(t, calls) ==
    /\ thread[t].todo = <<>>
    /\ \E c \in calls : thread' = [thread EXCEPT ![t] = c]
    /\ UNCHANGED <<drv_vars, held, wire, dc_level, rest_vars>>

\* the call a thread makes: the function and its arguments
Calling(op, data, frame, mode, filename, file) ==
    [NotCalled EXCEPT !.op = op, !.data = data, !.frame = frame,
                      !.mode = mode, !.filename = filename, !.file = file,
                      !.todo = << <<op>> >>]

Return(t) ==
    /\ At(t, "return")
    /\ thread' = [thread EXCEPT ![t].ret = Cur(t)[2], ![t].todo = <<>>]
    /\ UNCHANGED <<drv_vars, held, wire, dc_level, rest_vars>>

\* lines 190-192
EnterDisplayInit(t) ==
    /\ At(t, "display_init")
    /\ thread' = [thread EXCEPT ![t].todo =
                    IF initialized THEN << <<"return", <<TRUE>> >> >>
                    ELSE << <<"acquire">> >>]
    /\ UNCHANGED <<drv_vars, held, wire, dc_level, rest_vars>>

\* display_init setting initialized before it initializes the hardware
AcquireResources_early_flag(t) ==
    /\ At(t, "acquire")
    /\ \E f \in InitFaults :
         LET r == init_acquire(Machine, f)
         IN  /\ SetStatics(r.m)
             /\ thread' = [thread EXCEPT
                  ![t].acquired = r.ok,
                  ![t].todo = IF r.ok
                              THEN << <<"initialized">>,
                                      <<"epd_init_hardware">>,
                                      <<"return", <<TRUE>> >> >>
                              ELSE << <<"return", <<FALSE>> >> >>]
             /\ dc_level' = IF r.ok THEN 0 ELSE dc_level
    /\ UNCHANGED <<wire, rest_vars>>

\* lines 195-248: the acquisitions succeed, or one of them fails and the
\* call returns false; the line request leaves the select line low
AcquireResources(t) ==
    /\ At(t, "acquire")
    /\ \E f \in InitFaults :
         LET r == init_acquire(Machine, f)
         IN  /\ SetStatics(r.m)
             /\ thread' = [thread EXCEPT
                  ![t].acquired = r.ok,
                  ![t].todo = IF r.ok
                              THEN << <<"epd_init_hardware">>,
                                      <<"initialized">>, <<"return", <<TRUE>> >> >>
                              ELSE << <<"return", <<FALSE>> >> >>]
             /\ dc_level' = IF r.ok THEN 0 ELSE dc_level
    /\ UNCHANGED <<wire, rest_vars>>

\* line 246
SetInitialized(t) ==
    /\ At(t, "initialized")
    /\ initialized' = TRUE
    /\ thread' = [thread EXCEPT ![t].todo = Tail(@)]
    /\ UNCHANGED <<spi_fd, chip, dc_line, rst_line, busy_line, held, wire,
                   dc_level, rest_vars>>

\* lines 315-341
RunDisplayCleanup(t) ==
    /\ At(t, "display_cleanup")
    /\ SetStatics(display_cleanup(Machine).m)
    /\ thread' = [thread EXCEPT ![t].todo = << <<"return", <<>> >> >>]
    /\ UNCHANGED <<wire, dc_level, rest_vars>>

\* display_image_raw taking a lock: it waits while another thread is inside
\* the driver
EnterDisplayImageRaw_locked(t) ==
    /\ At(t, "display_image_raw")
    /\ \A u \in Threads \ {t} : thread[u].todo = <<>>
    /\ thread' = [thread EXCEPT ![t].todo =
         IF ~initialized \/ thread[t].data = NULL
         THEN << <<"return", <<FALSE>> >> >>
         ELSE (IF thread[t].mode = DISPLAY_MODE_PARTIAL
               THEN << <<"epd_init_partial">> >> ELSE <<>>)
              \o << <<"epd_w21_write_cmd", 36>>, <<"for", 0>> >>
              \o (IF thread[t].mode = DISPLAY_MODE_FULL
                  THEN << <<"epd_update">> >>
                  ELSE << <<"epd_update_partial">> >>)
              \o << <<"return", <<TRUE>> >> >>]
    /\ UNCHANGED <<drv_vars, held, wire, dc_level, rest_vars>>

\* lines 252-272
EnterDisplayImageRaw(t) ==
    /\ At(t, "display_image_raw")
    /\ thread' = [thread EXCEPT ![t].todo =
         IF ~initialized \/ thread[t].data = NULL
         THEN << <<"return", <<FALSE>> >> >>
         ELSE (IF thread[t].mode = DISPLAY_MODE_PARTIAL
               THEN << <<"epd_init_partial">> >> ELSE <<>>)
              \o << <<"epd_w21_write_cmd", 36>>, <<"for", 0>> >>
              \o (IF thread[t].mode = DISPLAY_MODE_FULL
                  THEN << <<"epd_update">> >>
                  ELSE << <<"epd_update_partial">> >>)
              \o << <<"return", <<TRUE>> >> >>]
    /\ UNCHANGED <<drv_vars, held, wire, dc_level, rest_vars>>

\* lines 278-289
EnterDisplayImagePng(t) ==
    /\ At(t, "display_image_png")
    /\ IF ~initialized \/ thread[t].filename = NULL
       THEN thread' = [thread EXCEPT ![t].todo = << <<"return", <<FALSE>> >> >>]
       ELSE \E stack \in Stacks :
              LET conv == ConvertedOnStack[thread[t].file, stack]
              IN  IF ~conv.ret
                  THEN thread' = [thread EXCEPT
                                    ![t].todo = << <<"return", <<FALSE>> >> >>]
                  ELSE thread' = [thread EXCEPT
                                    ![t].data = FRAME_PTR,
                                    ![t].frame = NameOf(conv.out),
                                    ![t].todo = << <<"display_image_raw">> >>]
    /\ UNCHANGED <<drv_vars, held, wire, dc_level, rest_vars>>

\* lines 293-302
EnterDisplayClear(t) ==
    /\ At(t, "display_clear")
    /\ IF ~initialized
       THEN thread' = [thread EXCEPT ![t].todo = << <<"return", <<FALSE>> >> >>]
       ELSE \E stack \in Stacks :
              LET white_data == memset(stack, 255, EPD_ARRAY)
              IN  thread' = [thread EXCEPT
                               ![t].data = FRAME_PTR,
                               ![t].frame = NameOf(white_data),
                               ![t].mode = DISPLAY_MODE_FULL,
                               ![t].todo = << <<"display_image_raw">> >>]
    /\ UNCHANGED <<drv_vars, held, wire, dc_level, rest_vars>>

\* lines 306-312
EnterDisplaySleep(t) ==
    /\ At(t, "display_sleep")
    /\ thread' = [thread EXCEPT ![t].todo =
         IF ~initialized
         THEN << <<"return", <<>> >> >>
         ELSE << <<"epd_w21_write_cmd", 16>>, <<"epd_w21_write_data", 1>>,
                 <<"delay_ms", 100>>, <<"return", <<>> >> >>]
    /\ UNCHANGED <<drv_vars, held, wire, dc_level, rest_vars>>

\* a call of a private function that only calls others
EnterPrivate(t) ==
    /\ thread[t].todo # <<>>
    /\ Cur(t)[1] \in DOMAIN Body
    /\ thread' = [thread EXCEPT ![t].todo = Body[Cur(t)[1]] \o Tail(@)]
    /\ UNCHANGED <<drv_vars, held, wire, dc_level, rest_vars>>

\* epd_w21_write_data leaving the select line where it is
EpdW21Write_data_no_drive(t) ==
    /\ thread[t].todo # <<>>
    /\ Cur(t)[1] \in {"epd_w21_write_cmd", "epd_w21_write_data"}
    /\ LET cmd == Cur(t)[1] = "epd_w21_write_cmd"
       IN  thread' = [thread EXCEPT ![t].todo =
             IF spi_fd < 0 THEN Tail(@)
             ELSE (IF cmd THEN << <<"gpio_write", DC_PIN, 0>> >> ELSE <<>>)
                  \o << <<"ioctl", IF cmd THEN "cmd" ELSE "data", Cur(t)[2]>> >>
                  \o Tail(@)]
    /\ UNCHANGED <<drv_vars, held, wire, dc_level, rest_vars>>

\* lines 79-82 and 100-103: nothing happens without a descriptor; otherwise
\* the select line is driven low for a command and high for data, then the
\* byte is transferred
EpdW21Write(t) ==
    /\ thread[t].todo # <<>>
    /\ Cur(t)[1] \in {"epd_w21_write_cmd", "epd_w21_write_data"}
    /\ LET cmd == Cur(t)[1] = "epd_w21_write_cmd"
       IN  thread' = [thread EXCEPT ![t].todo =
             IF spi_fd < 0 THEN Tail(@)
             ELSE << <<"gpio_write", DC_PIN, IF cmd THEN 0 ELSE 1>>,
                     <<"ioctl", IF cmd THEN "cmd" ELSE "data", Cur(t)[2]>> >>
                  \o Tail(@)]
    /\ UNCHANGED <<drv_vars, held, wire, dc_level, rest_vars>>

\* lines 40-54: gpiod_line_set_value succeeds or fails (oks: the outcomes
\* it can have); a failure is logged and leaves the line as it was
GpioWrite(t, oks) ==
    /\ At(t, "gpio_write")
    /\ LET pin == Cur(t)[2]
           value == Cur(t)[3]
           drive == gpio_write(Machine, pin, value)
       IN  IF drive = <<>>
           THEN /\ thread' = [thread EXCEPT ![t].todo = Tail(@)]
                /\ UNCHANGED <<wire, dc_level>>
           ELSE \E ok \in oks :
                  LET level == IF ok /\ pin = DC_PIN THEN value ELSE dc_level
                  IN  /\ thread' = [thread EXCEPT
                           ![t].todo = Tail(@),
                           ![t].k = IF pin = RST_PIN THEN @ + 1 ELSE @,
                           ![t].last = IF pin = RST_PIN THEN drive[1] ELSE @,
                           ![t].faulted = @ \/ ~ok]
                      /\ wire' = Latest(Append(wire,
                                   Entry(t, drive[1], spi_fd, level, 0)))
                      /\ dc_level' = level
    /\ UNCHANGED <<drv_vars, held, rest_vars>>

\* a transfer whose failure makes the call return false
SpiTransfer_abort(t, oks) ==
    /\ At(t, "ioctl")
    /\ \E ok \in oks :
         /\ thread' = [thread EXCEPT
              ![t].todo = IF ok THEN Tail(@) ELSE << <<"return", <<FALSE>> >> >>,
              ![t].k = @ + 1,
              ![t].last = <<Cur(t)[2], Cur(t)[3]>>,
              ![t].faulted = @ \/ ~ok]
         /\ wire' = Latest(Append(wire,
                      Entry(t, <<Cur(t)[2], Cur(t)[3]>>, spi_fd, dc_level, 1)))
    /\ UNCHANGED <<drv_vars, held, dc_level, rest_vars>>

\* lines 84-96 and 105-117: one transfer of one byte on the descriptor as
\* it is now; a failure is logged
SpiTransfer(t, oks) ==
    /\ At(t, "ioctl")
    /\ \E ok \in oks :
         /\ thread' = [thread EXCEPT
              ![t].todo = Tail(@),
              ![t].k = @ + 1,
              ![t].last = <<Cur(t)[2], Cur(t)[3]>>,
              ![t].faulted = @ \/ ~ok]
         /\ wire' = Latest(Append(wire,
                      Entry(t, <<Cur(t)[2], Cur(t)[3]>>, spi_fd, dc_level, 1)))
    /\ UNCHANGED <<drv_vars, held, dc_level, rest_vars>>

\* lines 263-265
ForEachByte(t) ==
    /\ At(t, "for")
    /\ LET i == Cur(t)[2]
       IN  thread' = [thread EXCEPT ![t].todo =
             IF i < EPD_ARRAY
             THEN << <<"epd_w21_write_data", FrameNamed(thread[t].frame)[i + 1]>>,
                     <<"for", i + 1>> >> \o Tail(@)
             ELSE Tail(@)]
    /\ UNCHANGED <<drv_vars, held, wire, dc_level, rest_vars>>

\* the loop of lcd_chkstatus without its watchdog
PollBusy_no_watchdog(t, levels) ==
    /\ At(t, "while")
    /\ \E level \in levels :
         LET watchdog_counter == Cur(t)[2]
             v == gpio_read(Machine, BUSY_PIN, [run |-> 0, then |-> level], 0)
         IN  thread' = [thread EXCEPT ![t].todo =
               IF v = 1
               THEN << <<"while", watchdog_counter + 1>> >> \o Tail(@)
               ELSE << <<"if", watchdog_counter>> >> \o Tail(@)]
    /\ UNCHANGED <<drv_vars, held, wire, dc_level, rest_vars>>

\* lines 69-72: one evaluation of the loop condition with the delay and the
\* increment that follow when it holds; levels: what the busy line can show
PollBusy(t, levels) ==
    /\ At(t, "while")
    /\ \E level \in levels :
         LET watchdog_counter == Cur(t)[2]
             v == gpio_read(Machine, BUSY_PIN, [run |-> 0, then |-> level], 0)
         IN  thread' = [thread EXCEPT ![t].todo =
               IF v = 1 /\ watchdog_counter < WATCHDOG_LIMIT
               THEN << <<"while", watchdog_counter + 1>> >> \o Tail(@)
               ELSE << <<"if", watchdog_counter>> >> \o Tail(@)]
    /\ UNCHANGED <<drv_vars, held, wire, dc_level, rest_vars>>

\* lines 73-75: the busy-wait ends, with a warning after a timeout
CheckWatchdog(t) ==
    /\ At(t, "if")
    /\ thread' = [thread EXCEPT
         ![t].todo = Tail(@),
         ![t].k = @ + 1,
         ![t].last = <<"lcd_chkstatus">>,
         ![t].faulted = @ \/ Cur(t)[2] >= WATCHDOG_LIMIT]
    /\ UNCHANGED <<drv_vars, held, wire, dc_level, rest_vars>>

\* lines 36-38
DelayMs(t) ==
    /\ At(t, "delay_ms")
    /\ thread' = [thread EXCEPT ![t].todo = Tail(@)]
    /\ UNCHANGED <<drv_vars, held, wire, dc_level, rest_vars>>

\* the steps of a thread inside display_image_raw or display_sleep
RunDisplay(t, oks, levels) ==
    \/ Return(t)
    \/ EnterDisplayImageRaw(t)
    \/ EnterDisplaySleep(t)
    \/ EnterPrivate(t)
    \/ EpdW21Write(t)
    \/ GpioWrite(t, oks)
    \/ SpiTransfer(t, oks)
    \/ ForEachByte(t)
    \/ PollBusy(t, levels)
    \/ CheckWatchdog(t)
    \/ DelayMs(t)

\* the steps of a thread inside any public function
Run(t, oks, levels) ==
    \/ RunDisplay(t, oks, levels)
    \/ EnterDisplayInit(t)
    \/ AcquireResources(t)
    \/ SetInitialized(t)
    \/ RunDisplayCleanup(t)
    \/ EnterDisplayImagePng(t)
    \/ EnterDisplayClear(t)

\* what the busy line can show at a poll: ready, busy, read error
Levels == {0, 1, -1}

\* the calls of the single caller
StepCalls ==
    { Calling(op, NULL, "WhiteFrame", DISPLAY_MODE_FULL, NULL, NoFile) :
        op \in {"display_init", "display_clear", "display_sleep",
                "display_cleanup", "display_image_raw", "display_image_png"} }
    \cup { Calling("display_image_raw", FRAME_PTR, "RampFrame", mode,
                   NULL, NoFile) : mode \in Modes }
    \cup { Calling("display_image_png", NULL, "WhiteFrame", mode,
                   PNG_PATH, file) : mode \in Modes, file \in DriverFiles }

NextSteps ==
    \/ Call(1, StepCalls)
    \/ Run(1, BOOLEAN, Levels)

SpecSteps == Init /\ [][NextSteps]_vars

\* a thread inside the driver keeps running
SpecStepsFair == SpecSteps /\ WF_vars(Run(1, BOOLEAN, Levels))

----------------------------------------------------------------------------
(* Two threads on the statics of an initialized driver (lines 14-20 are     *)
(* plain statics and no function takes a lock): each step of either thread  *)
(* reads and writes them as they are at that moment. No drive or transfer   *)
(* fails and the busy line is idle. The first thread displays the ramp      *)
(* frame and puts the panel to sleep; the second displays the white frame   *)
(* and is followed for MaxRacing protocol events.                           *)

\* the statics of an initialized driver
Ready ==
    [spi_fd |-> SPI_DEV_FD, chip |-> GPIOCHIP0, dc_line |-> DC_PIN,
     rst_line |-> RST_PIN, busy_line |-> BUSY_PIN, initialized |-> TRUE,
     held |-> Resources]

InitThreads ==
    /\ spi_fd = Ready.spi_fd
    /\ chip = Ready.chip
    /\ dc_line = Ready.dc_line
    /\ rst_line = Ready.rst_line
    /\ busy_line = Ready.busy_line
    /\ initialized = Ready.initialized
    /\ held = Ready.held
    /\ panel_asleep = FALSE
    /\ panel_border = 5
    /\ init_ok = TRUE
    /\ call = [op |-> "start"]
    /\ ret = VOID
    /\ bus = <<>>
    /\ sys = <<>>
    /\ output_data = <<>>
    /\ conv_ret = VOID
    /\ thread = [t \in Threads |-> NotCalled]
    /\ wire = <<>>
    /\ dc_level = 1

ThreadCalls(t) ==
    IF t = 1
    THEN { Calling("display_image_raw", FRAME_PTR, "RampFrame",
                   DISPLAY_MODE_FULL, NULL, NoFile),
           Calling("display_sleep", NULL, "WhiteFrame", DISPLAY_MODE_FULL,
                   NULL, NoFile) }
    ELSE { Calling("display_image_raw", FRAME_PTR, "WhiteFrame",
                   DISPLAY_MODE_FULL, NULL, NoFile) }

\* the threads whose steps are followed
Racing(t) == t = 1 \/ thread[t].k < MaxRacing

NextThreads ==
    \/ Call(1, ThreadCalls(1))
    \/ RunDisplay(1, {TRUE}, {0})
    \/ (Racing(2) /\ Call(2, ThreadCalls(2)))
    \/ (Racing(2) /\ RunDisplay(2, {TRUE}, {0}))

SpecThreads == InitThreads /\ [][NextThreads]_vars

----------------------------------------------------------------------------
(* Properties of the driver, checked under Spec *)

DisplayOps == {"display_image_raw", "display_image_png", "display_clear"}

IsTransfer(e) == e[1] \in {"cmd", "data"}
IsSignal(e) == e[1] \in {"gpio", "cmd", "data"}
Transfers(log) == SelectSeq(log, IsTransfer)
Signals(log) == SelectSeq(log, IsSignal)

Positions(log, e) == {i \in 1..Len(log) : log[i] = e}

IsRelease(e) == e[1] \in {"close", "gpiod_line_release", "gpiod_chip_close"}
Releases(log, r) ==
    Cardinality({i \in 1..Len(log) : IsRelease(log[i]) /\ log[i][2] = r})

AllReleased ==
    /\ spi_fd = -1
    /\ chip = NULL
    /\ dc_line = NULL
    /\ rst_line = NULL
    /\ busy_line = NULL
    /\ held = {}

\* C1: a display_image_raw called while the driver is not initialized or
\* with a null frame pointer, and a display_clear or display_image_png called
\* while the driver is not initialized, returns false, puts nothing on the
\* panel interface (no signal drive, no command or data byte) and leaves the
\* statics and the held resources as they were.
C1_RejectedCallDoesNothing ==
    [][ ( \/ /\ call'.op = "display_image_raw"
             /\ (~initialized \/ call'.data = NULL)
          \/ /\ call'.op \in {"display_clear", "display_image_png"}
             /\ ~initialized )
        => /\ ret' = FALSE
           /\ bus' = <<>>
           /\ sys' = <<>>
           /\ UNCHANGED <<drv_vars, held>> ]_vars

\* a display_image_raw with a frame is rejected after the driver has been
\* initialized, put to sleep and cleaned up
C1_Witness ==
    /\ call.op = "display_image_raw"
    /\ call.data # NULL
    /\ ~initialized
    /\ panel_asleep
    /\ ret = FALSE

\* C2: once display_init has returned true and display_cleanup has not been
\* called since, a display_init returns true, acquires nothing (no open, no
\* chip open, no line request: it makes no system call at all) and puts
\* nothing on the panel interface.
C2_InitIdempotent ==
    [][ (init_ok /\ call'.op = "display_init")
        => /\ ret' = TRUE
           /\ sys' = <<>>
           /\ bus' = <<>>
           /\ UNCHANGED <<drv_vars, held>> ]_vars

\* a repeated display_init after a display_sleep
C2_Witness ==
    /\ call.op = "display_init"
    /\ init_ok
    /\ panel_asleep
    /\ ret = TRUE
    /\ bus = <<>>

\* C3: after a display_init that returned false no resource is held, the
\* statics are back at their initial values and no command or data byte was
\* sent.
C3_FailedInitHoldsNothing ==
    (call.op = "display_init" /\ ret = FALSE)
    => /\ AllReleased
       /\ ~initialized
       /\ Transfers(bus) = <<>>

\* a display_init fails at the request of the busy line, after the bus, the
\* chip and two lines were acquired
C3_Witness ==
    /\ call.op = "display_init"
    /\ ret = FALSE
    /\ \E i \in 1..Len(sys) : sys[i] = <<"gpiod_line_request_input", "busy", FALSE>>
    /\ \E i \in 1..Len(sys) : sys[i] = <<"gpiod_line_request_output", "rst", TRUE>>

\* C4: after display_cleanup everything is released and the statics are at
\* their initial values; each resource that was held is released exactly
\* once and nothing else is released; a display_cleanup that follows a
\* display_cleanup releases nothing and changes nothing.
C4_CleanupReleasesOnce ==
    [][ call'.op = "display_cleanup"
        => /\ AllReleased'
           /\ ~initialized'
           /\ \A r \in Resources :
                Releases(sys', r) = IF r \in held THEN 1 ELSE 0
           /\ call.op = "display_cleanup"
              => (sys' = <<>> /\ UNCHANGED <<drv_vars, held>>) ]_vars

\* a display_cleanup has released the bus, the chip and the three lines
C4_Witness ==
    /\ call.op = "display_cleanup"
    /\ \A r \in Resources : Releases(sys, r) = 1
    /\ AllReleased

\* C5: while the panel is in deep sleep (a display_sleep on an initialized
\* driver, and no initialization sequence since), a display_image_raw,
\* display_image_png or display_clear returns false and sends no frame data.
C5_AsleepRejectsDisplay ==
    (panel_asleep /\ call.op \in DisplayOps)
    => /\ ret = FALSE
       /\ Positions(bus, <<"cmd", 36>>) = {}

ModeOfCall == IF call.op = "display_clear" THEN DISPLAY_MODE_FULL ELSE call.mode

\* C6: in a display operation that passes its precondition check, mode
\* Partial sends command 0x3C exactly once, followed by data byte 0x80, before
\* command 0x24; mode Full sends no command 0x3C.
C6_BorderOnlyInPartial ==
    (call.op \in DisplayOps /\ ret = TRUE)
    => LET T == Transfers(bus)
           border == Positions(T, <<"cmd", 60>>)
           ram == Positions(T, <<"cmd", 36>>)
       IN  IF ModeOfCall = DISPLAY_MODE_PARTIAL
           THEN /\ Cardinality(border) = 1
                /\ ram # {}
                /\ \A i \in border :
                     /\ T[i + 1] = <<"data", 128>>
                     /\ \A j \in ram : i < j
           ELSE border = {}

\* a partial display of the frame that holds every byte value, 0x3C included
C6_Witness ==
    /\ call.op = "display_image_raw"
    /\ ret = TRUE
    /\ call.mode = DISPLAY_MODE_PARTIAL
    /\ call.frame = RampFrame

\* C7: a display_image_raw that passes its precondition check sends, after
\* the border command of mode Partial if any, command 0x24, then the
\* EPD_ARRAY bytes of the frame in index order, then command 0x22 with one
\* data byte (0xF7 for Full, 0xFF for Partial), then command 0x20, and nothing
\* else; the one busy-wait of the call comes after the last transfer, and the
\* call returns true after it.
C7_FrameWriteSequence ==
    (call.op = "display_image_raw" /\ ret = TRUE)
    => LET T == Transfers(bus)
           pre == IF call.mode = DISPLAY_MODE_PARTIAL THEN 2 ELSE 0
           waits == {i \in 1..Len(bus) : bus[i][1] = "lcd_chkstatus"}
           last == Positions(bus, <<"cmd", 32>>)
       IN  /\ Len(T) = pre + EPD_ARRAY + 4
           /\ T[pre + 1] = <<"cmd", 36>>
           /\ \A i \in 0..(EPD_ARRAY - 1) :
                T[pre + 2 + i] = <<"data", call.frame[i + 1]>>
           /\ T[pre + EPD_ARRAY + 2] = <<"cmd", 34>>
           /\ T[pre + EPD_ARRAY + 3] =
                <<"data", IF call.mode = DISPLAY_MODE_FULL THEN 247 ELSE 255>>
           /\ T[pre + EPD_ARRAY + 4] = <<"cmd", 32>>
           /\ Cardinality(waits) = 1
           /\ Cardinality(last) = 1
           /\ \A w \in waits : \A i \in 1..Len(bus) :
                IsTransfer(bus[i]) => i < w

\* a full display of the frame that holds every byte value
C7_Witness ==
    /\ call.op = "display_image_raw"
    /\ ret = TRUE
    /\ call.mode = DISPLAY_MODE_FULL
    /\ call.frame = RampFrame
    /\ Len(Transfers(bus)) = EPD_ARRAY + 4

\* C8: on an initialized driver display_clear returns what display_image_raw
\* returns for a frame of EPD_ARRAY bytes 0xFF and mode Full, and drives the
\* same signals and sends the same bytes in the same order.
C8_ClearIsWhiteFullFrame ==
    (call.op = "display_clear" /\ initialized)
    => LET raw == display_image_raw(Machine, FRAME_PTR,
                                    [i \in 1..EPD_ARRAY |-> 255],
                                    DISPLAY_MODE_FULL, Idle)
       IN  /\ ret = raw.ret
           /\ Signals(bus) = Signals(raw.bus)

\* a display_clear on an initialized driver
C8_Witness ==
    /\ call.op = "display_clear"
    /\ initialized
    /\ ret = TRUE
    /\ Len(bus) > EPD_ARRAY

\* C11: when the decoded image's width or height differs from the panel's,
\* convert_png_to_1bit returns false and leaves every byte of the buffer it
\* was given as it was, and display_image_png on that file returns false
\* without a signal drive, a command byte or a data byte.
C11_MismatchRejectedUntouched ==
    ( /\ call.op = "display_image_png"
      /\ initialized
      /\ call.filename # NULL
      /\ call.file.error = 0
      /\ (call.file.width # EPD_WIDTH \/ call.file.height # EPD_HEIGHT) )
    => /\ ret = FALSE
       /\ bus = <<>>
       /\ \A stack \in Stacks :
            convert_png_to_1bit(call.filename, call.file, FRAME_PTR, stack)
              = [ret |-> FALSE, out |-> stack]

\* an initialized driver has been given a file one row short of the panel
C11_Witness ==
    /\ call.op = "display_image_png"
    /\ initialized
    /\ call.filename # NULL
    /\ call.file.error = 0
    /\ call.file.width = EPD_WIDTH
    /\ call.file.height = EPD_HEIGHT - 1
    /\ ret = FALSE

\* C14: a busy-wait is followed by the timeout warning exactly when its last
\* poll, like every poll before it, read the busy line asserted; a wait
\* that ends on a poll that read anything else logs no warning.
C14_WarningIffNeverDeasserted ==
    \A i \in 1..Len(bus) :
      bus[i][1] = "lcd_chkstatus"
      => LET warned == i < Len(bus) /\ bus[i + 1][1] = "printf"
         IN  warned <=> bus[i][3] = 1

\* the transfers of a log at which a full refresh is activated: command
\* 0x20 after command 0x22 with data 0xF7
FullRefreshes(T) ==
    {i \in 3..Len(T) :
       /\ T[i] = <<"cmd", 32>>
       /\ T[i - 1] = <<"data", 247>>
       /\ T[i - 2] = <<"cmd", 34>>}

\* C17: whenever a call activates a full refresh, the border waveform value
\* the panel was sent last is the full-refresh value 0x05.
C17_FullRefreshHasFullBorder ==
    [][ \A T \in {Transfers(bus')} :
          \A i \in FullRefreshes(T) : BorderAt(panel_border, T, i) = 5 ]_vars

\* C18: between the public calls of a single caller the bus, the chip and
\* the three lines are all held or all released, the handles in the statics
\* are set exactly for what is held, and initialized is true exactly when
\* all of them are held.
C18_AllHeldOrAllReleased ==
    /\ held \in {{}, Resources}
    /\ spi_fd >= 0 <=> "spi" \in held
    /\ chip # NULL <=> "chip" \in held
    /\ dc_line # NULL <=> "dc" \in held
    /\ rst_line # NULL <=> "rst" \in held
    /\ busy_line # NULL <=> "busy" \in held
    /\ initialized <=> held = Resources

\* a display_init has failed to open the chip after it had opened the bus
C18_Witness ==
    /\ call.op = "display_init"
    /\ \E i \in 1..Len(sys) :
         sys[i] = <<"gpiod_chip_open_by_name", "chip", FALSE>>
    /\ held = {}
    /\ ~initialized

----------------------------------------------------------------------------
(* Properties of the driver step by step, checked under SpecSteps and       *)
(* SpecStepsFair                                                            *)

InCall(t) == thread[t].todo # <<>>
Returned(t) == thread[t].op # "none" /\ thread[t].todo = <<>>

\* C12: a busy-wait never counts more than WATCHDOG_LIMIT poll delays,
\* whatever level each poll reads, and a thread that keeps running leaves
\* every public function it has entered: display_init, display_image_raw,
\* display_image_png, display_clear, display_sleep and display_cleanup all
\* return.
C12_EveryCallReturns ==
    /\ [](\A t \in Threads :
            (At(t, "while") \/ At(t, "if")) => Cur(t)[2] <= WATCHDOG_LIMIT)
    /\ \A t \in Threads : InCall(t) ~> Returned(t)

\* a busy-wait of display_init has ended because its watchdog ran out
C12_Witness ==
    /\ thread[1].op = "display_init"
    /\ At(1, "if")
    /\ Cur(1)[2] = WATCHDOG_LIMIT

\* the initialization sequence of the panel
InitSequence ==
    << <<"gpio", RST_PIN, 0>>, <<"gpio", RST_PIN, 1>>, <<"lcd_chkstatus">>,
       <<"cmd", 18>>, <<"lcd_chkstatus">>,
       <<"cmd", 1>>, <<"data", 249>>, <<"data", 0>>, <<"data", 0>>,
       <<"cmd", 17>>, <<"data", 1>>,
       <<"cmd", 68>>, <<"data", 0>>, <<"data", 15>>,
       <<"cmd", 69>>, <<"data", 249>>, <<"data", 0>>, <<"data", 0>>,
       <<"data", 0>>,
       <<"cmd", 60>>, <<"data", 5>>,
       <<"cmd", 33>>, <<"data", 0>>, <<"data", 128>>,
       <<"cmd", 24>>, <<"data", 128>>,
       <<"cmd", 78>>, <<"data", 0>>,
       <<"cmd", 79>>, <<"data", 249>>, <<"data", 0>>,
       <<"lcd_chkstatus">> >>

\* C13: the protocol events of a display_init (reset drives, byte
\* transfers, busy-waits) are, in this order, reset low, reset high,
\* busy-wait, 0x12, busy-wait, 0x01 F9 00 00, 0x11 01, 0x44 00 0F,
\* 0x45 F9 00 00 00, 0x3C 05, 0x21 00 80, 0x18 80, 0x4E 00, 0x4F F9 00,
\* busy-wait, and nothing after them; the first of them comes when the bus,
\* the chip and the three lines are held, initialized is false until the
\* last of them, and a display_init that has acquired its resources returns
\* true with initialized set after the whole sequence.
C13_InitSequenceExact ==
    \A t \in Threads :
      thread[t].op = "display_init"
      => /\ thread[t].k <= Len(InitSequence)
         /\ thread[t].k > 0
            => /\ thread[t].last = InitSequence[thread[t].k]
               /\ thread[t].acquired
               /\ held = Resources
               /\ spi_fd >= 0 /\ dc_line # NULL /\ rst_line # NULL
               /\ busy_line # NULL
         /\ (thread[t].acquired /\ thread[t].k < Len(InitSequence))
            => (~initialized /\ InCall(t))
         /\ (thread[t].acquired /\ Returned(t))
            => /\ thread[t].ret = <<TRUE>>
               /\ initialized
               /\ thread[t].k = Len(InitSequence)

\* a display_init has acquired its resources and returned
C13_Witness ==
    /\ thread[1].op = "display_init"
    /\ thread[1].acquired
    /\ Returned(1)
    /\ thread[1].ret = <<TRUE>>
    /\ thread[1].last = <<"lcd_chkstatus">>

\* the protocol events of a log of the panel interface: reset drives, byte
\* transfers and busy-waits, without what the busy-waits counted and read
IsProtocol(e) ==
    \/ e[1] \in {"cmd", "data", "lcd_chkstatus"}
    \/ (e[1] = "gpio" /\ e[2] = RST_PIN)

Protocol(log) ==
    LET sel == SelectSeq(log, IsProtocol)
    IN  [i \in 1..Len(sel) |->
           IF sel[i][1] = "lcd_chkstatus" THEN <<"lcd_chkstatus">> ELSE sel[i]]

\* what display_image_raw and epd_init_hardware do when no drive and no
\* transfer fails and the busy line is idle
FaultFreeRaw ==
    [mode \in Modes, n \in FrameNames |->
        Protocol(display_image_raw(Ready, FRAME_PTR, FrameNamed(n), mode,
                                   Idle).bus)]

FaultFreeInit == Protocol(epd_init_hardware(Ready, <<Idle, Idle, Idle>>))

\* C15: whatever drives and transfers fail and whatever busy-waits time
\* out, a display_image_raw that passes its precondition check and a
\* display_init that has acquired its resources attempt the protocol events
\* of the fault-free run, each once and in the same order, and return true
\* after the last of them.
C15_SoftFaultsChangeNothing ==
    \A t \in Threads :
      LET th == thread[t]
          ref == IF th.op = "display_init" THEN FaultFreeInit
                 ELSE FaultFreeRaw[th.mode, th.frame]
      IN  ( \/ th.op = "display_image_raw" /\ th.k > 0
            \/ th.op = "display_init" /\ th.acquired )
          => /\ th.k <= Len(ref)
             /\ th.k > 0 => th.last = ref[th.k]
             /\ th.k < Len(ref) => InCall(t)
             /\ Returned(t) => (th.ret = <<TRUE>> /\ th.k = Len(ref))

\* a display_image_raw has returned true after the whole frame-write
\* sequence although a drive or a transfer failed or the busy-wait timed out
C15_Witness ==
    /\ thread[1].op = "display_image_raw"
    /\ thread[1].faulted
    /\ Returned(1)
    /\ thread[1].ret = <<TRUE>>
    /\ thread[1].k = EPD_ARRAY + 5

\* C16: every transfer on the panel interface carries one byte, is made on
\* an open descriptor, and comes directly after a drive, by the same
\* caller, of the data/command-select line: low before a command byte, high
\* before a data byte.  (The event before the oldest one kept is not
\* looked at.)
C16_SelectDrivenBeforeEachByte ==
    \A i \in 1..Len(wire) :
      wire[i].ev[1] \in {"cmd", "data"}
      => /\ wire[i].len = 1
         /\ wire[i].fd >= 0
         /\ IF i = 1 THEN Len(wire) = Window
            ELSE /\ wire[i - 1].by = wire[i].by
                 /\ wire[i - 1].ev =
                      <<"gpio", DC_PIN, IF wire[i].ev[1] = "cmd" THEN 0 ELSE 1>>

\* the data byte 0xFF of a frame has been transferred after a drive of the
\* select line that failed
C16_Witness ==
    /\ thread[1].op = "display_image_raw"
    /\ thread[1].faulted
    /\ Len(wire) = Window
    /\ wire[Window].ev = <<"data", 255>>
    /\ wire[Window].dc = 0

----------------------------------------------------------------------------
(* Properties of two threads in the driver, checked under SpecThreads *)

\* C19: the driver has no internal locking: a thread inside display_image_raw
\* or display_sleep can take its next step whatever the other thread is
\* doing, so the byte transfers and select-line drives of two threads
\* interleave on the panel interface.
C19_NoInternalLocking ==
    \A t \in Threads :
        (InCall(t) /\ Racing(t)) => ENABLED RunDisplay(t, {TRUE}, {0})

\* the first thread is inside the data stream of its frame; the second has
\* driven the select line low and transferred its command 0x24, and the data
\* byte of the first thread that followed went out with the select line low:
\* what the panel received is the frame-write sequence of neither call
C19_Witness ==
    /\ thread[1].op = "display_image_raw"
    /\ thread[1].k > 1
    /\ thread[1].k < EPD_ARRAY
    /\ Len(wire) >= 2
    /\ wire[Len(wire) - 1].by = 2
    /\ wire[Len(wire) - 1].ev = <<"cmd", 36>>
    /\ wire[Len(wire)].by = 1
    /\ wire[Len(wire)].ev[1] = "data"
    /\ wire[Len(wire)].dc = 0

----------------------------------------------------------------------------
(* Properties of the codec, checked under SpecCodec *)

Converted == call.op = "convert_png_to_1bit" /\ conv_ret = TRUE

Pixels == 0..(EPD_WIDTH * EPD_HEIGHT - 1)

\* the red, green and blue samples of pixel p of the file converted
Red(p) == ImageData(call.file, 4 * p)
Green(p) == ImageData(call.file, 4 * p + 1)
Blue(p) == ImageData(call.file, 4 * p + 2)

\* bit 7 - (p mod 8) of byte p div 8 of the output buffer
OutBit(p) == (output_data[p \div 8 + 1] \div 2 ^ (7 - (p % 8))) % 2

\* C9 as claimed: a pixel is white exactly when R + G + B > 384.
C9_WhiteIffMeanAbove128 ==
    Converted
    => \A p \in Pixels :
         OutBit(p) = IF Red(p) + Green(p) + Blue(p) > 384 THEN 1 ELSE 0

\* C9, amended: a pixel is white exactly when the mean of R, G and B rounded
\* down to an integer exceeds 128, that is when R + G + B >= 387; sums of 385
\* and 386 are black as is a sum of 384, whatever the alpha sample.
C9_WhiteIffTruncatedMeanAbove128 ==
    Converted
    => \A p \in Pixels :
         OutBit(p) = IF Red(p) + Green(p) + Blue(p) >= 387 THEN 1 ELSE 0

\* the one pixel whose samples sum to 385 has been classified black
C9_Witness ==
    /\ Converted
    /\ call.file.pix = Single(Black, <<128, 128, 129, 255>>, 0)
    /\ OutBit(0) = 0

\* C10: for an image of the panel's dimensions, bit 7 - (p mod 8) of byte
\* p div 8 is the classification of pixel p = y * 128 + x; the EPD_ARRAY bytes
\* of the buffer are all written (none keeps a stale bit) and the bytes
\* behind the buffer are untouched; an image whose only white pixel is (0,0)
\* gives 0x80 followed by bytes 0x00.
C10_PackedRowMajorMsbFirst ==
    Converted
    => /\ Len(output_data) = EPD_ARRAY + GuardLen
       /\ \A i \in 1..EPD_ARRAY : output_data[i] \in 0..255
       /\ \A y \in 0..(EPD_HEIGHT - 1) : \A x \in 0..(EPD_WIDTH - 1) :
            LET p == y * EPD_WIDTH + x
            IN  OutBit(p) = bit_of(gray_of(Red(p), Green(p), Blue(p)))
       /\ \A i \in (EPD_ARRAY + 1)..(EPD_ARRAY + GuardLen) :
            output_data[i] = call.stale
       /\ call.file.pix = Single(Black, White, 0)
          => /\ output_data[1] = 128
             /\ \A i \in 2..EPD_ARRAY : output_data[i] = 0

\* the image whose only white pixel is (0,0) has been converted into a
\* buffer that held stale bytes
C10_Witness ==
    /\ Converted
    /\ call.file.pix = Single(Black, White, 0)
    /\ call.stale = 170
    /\ output_data[1] = 128

====
